---- MODULE Spec2Model ----
(***************************************************************************)
(* A model of probe.py, the probing and alerting engine of NetworkMonitor: *)
(* run_ping / run_http / probe_one (one Measurement per endpoint),         *)
(* check_and_record_alerts (threshold rules), append_csv / insert_db /     *)
(* insert_alert (the two sinks), run_once (one cycle over ENDPOINTS) and   *)
(* main (one-shot and continuous mode).                                    *)
(*                                                                         *)
(* Representation.  A nullable Python value is a sequence of length at     *)
(* most one: None is << >> and the value v is << v >>.  Milliseconds and   *)
(* percentages are integers: the round-trip times the model feeds in are   *)
(* multiples of 420, so that sum/len is exact for up to seven replies, and *)
(* PING_COUNT = 4 divides 100, so the loss estimates are whole percents.   *)
(***************************************************************************)
EXTENDS Integers, Sequences, FiniteSets, TLC

VARIABLES
    mode,       \* args.once: "once" or "continuous"
    pc,         \* where main / run_once stands
    exc,        \* None, or the exception that left main
    cycle,      \* number of the cycle being run (calls of run_once so far)
    idx,        \* position of `ep` in ENDPOINTS within the cycle
    clock,      \* datetime.utcnow(), as a count of readings
    row,        \* the Measurement run_once holds for the current endpoint
    legs,       \* the probes probe_one last executed, in order
    call,       \* what ping and the HTTP server answered to the last probe_one
    found,      \* the list `alerts` of the last check_and_record_alerts call
    pending,    \* the part of that list its insert loop has still to go through
    csv,        \* probes.csv: None while the file does not exist, else its lines
    csv_at_start, \* history: probes.csv as the process found it when it started
    probes,     \* table probes of metrics.db, in rowid order
    alerts,     \* table alerts of metrics.db, in rowid order
    net,        \* the network: what ping and HTTP currently answer for each endpoint
    changes,    \* how often the network has changed during the run
    now,        \* perf_counter(), in seconds since the process started
    starts,     \* the readings `start` of main's loop, one per cycle begun
    sleep_for,  \* None, or the last value main passed to time.sleep
    work,       \* the wall time run_once takes in each cycle, in seconds
    push_row,   \* None when the import of line 16 failed, else the helper
    collector,  \* how the remote collector currently treats a push
    threads     \* the threads push_to_cloud_async has started, in order

\* main's timing, and what the cloud push adds to the state.
timers == <<now, starts, sleep_for, work>>

cloud == <<push_row, collector, threads>>

vars == <<mode, pc, exc, cycle, idx, clock, row, legs, call, found, pending,
          csv, csv_at_start, probes, alerts, net, changes, timers, cloud>>

(***************************************************************************)
(* Bounds of the model.                                                    *)
(***************************************************************************)
NumEndpoints == 2   \* how many entries of the configured list a cycle visits
MaxCycles == 3      \* cycles of continuous mode that are explored
MaxReplies == 5     \* most "time=" tokens in one ping output
MaxNetChanges == 1  \* changes of the network between cycles that are explored

(***************************************************************************)
(* Program constants.                                                      *)
(***************************************************************************)
LATENCY_ALERT_MS == 200
PACKET_LOSS_ALERT_PCT == 20
PING_COUNT == 4
\* --interval, in minutes: the default of line 329.
INTERVAL_MINUTES == 1

None == << >>
Some(x) == << x >>
Val(o) == o[1]
\* Python's truth value of a nullable number: None and 0 are false.
Truthy(o) == o # << >> /\ o[1] # 0

CONFIG ==
    << [name |-> "Google DNS",     host |-> "8.8.8.8",        prefer |-> "icmp"],
       [name |-> "Google",         host |-> "www.google.com", prefer |-> "http"],
       [name |-> "Yahoo",          host |-> "www.yahoo.com",  prefer |-> "http"],
       [name |-> "Bing",           host |-> "www.bing.com",   prefer |-> "http"],
       [name |-> "Cloudflare DNS", host |-> "1.1.1.1",        prefer |-> "icmp"] >>

ENDPOINTS == SubSeq(CONFIG, 1, NumEndpoints)

CSV_HEADERS ==
    << "timestamp", "name", "host", "method", "avg_ms", "min_ms", "max_ms", "rtts",
       "sent", "received", "packet_loss_pct", "http_status", "error" >>

(***************************************************************************)
(* What the environment can answer.                                        *)
(*                                                                         *)
(* A ping run either fails as a process (subprocess.run raises: the        *)
(* executable is missing, or the run exceeds its timeout) or prints text.  *)
(* Of the text the parser reads only the "time=<int>ms" tokens, in order,  *)
(* and the summary line.  A summary line is printed by ping from its own   *)
(* counters, so its numbers agree with each other and it reports the count *)
(* the command line asked for; a text whose summary reports no reply holds *)
(* no reply line.  The number of time tokens is otherwise independent of   *)
(* the summary: a reply printed with a fractional time ("time=14.2 ms")    *)
(* is no token, a duplicate reply is one more.  kind "none" is a text with *)
(* no summary line either pattern recognises (cut short, localised, or of  *)
(* another ping implementation).                                           *)
(***************************************************************************)
RttValues == {0, 420}

SeqsUpTo(S, n) == UNION {[1..k -> S] : k \in 0..n}

NoSummary == [kind |-> "none", sent |-> 0, received |-> 0, lost |-> 0, pct |-> 0]

PingSummary(kind, sent, received) ==
    [kind |-> kind, sent |-> sent, received |-> received,
     lost |-> sent - received, pct |-> ((sent - received) * 100) \div sent]

PingSummaries ==
    {NoSummary} \cup
    {PingSummary(k, PING_COUNT, r) : k \in {"windows", "posix"}, r \in 0..PING_COUNT}

PingRaises == [raised |-> TRUE, times |-> << >>, summary |-> NoSummary]

PingText(times, summary) == [raised |-> FALSE, times |-> times, summary |-> summary]

PingOutputs ==
    {PingRaises} \cup
    {PingText(t, s) : t \in SeqsUpTo(RttValues, MaxReplies),
                      s \in {x \in PingSummaries : x.kind = "none" \/ x.received > 0}} \cup
    {PingText(<< >>, s) : s \in PingSummaries}

\* requests.get either raises (connection refused, DNS, timeout) or returns a
\* response with a status code after `elapsed` milliseconds.
HttpRaises == [raised |-> TRUE, status |-> 0, elapsed |-> 0]

HttpResponse(status, elapsed) == [raised |-> FALSE, status |-> status, elapsed |-> elapsed]

HttpOutcomes == {HttpRaises} \cup {HttpResponse(s, e) : s \in {200, 503}, e \in {120, 300}}

\* The answers the cycles of Spec draw from: a dead ping process, four slow
\* replies with a Windows summary, and a failed or a quick HTTP exchange.  An
\* endpoint keeps answering the same way until the network changes, which the
\* model lets happen while the monitor sleeps between two cycles.
SchedPingOutputs ==
    {PingRaises, PingText(<<420, 420, 420, 420>>, PingSummary("windows", PING_COUNT, PING_COUNT))}

SchedHttpOutcomes == {HttpRaises, HttpResponse(200, 120)}

NetConditions == {[ping |-> p, http |-> h] : p \in SchedPingOutputs, h \in SchedHttpOutcomes}

(***************************************************************************)
(* run_ping: the process result parsed into a ping_result.  `raises` says  *)
(* whether an exception leaves the function.                               *)
(***************************************************************************)
RECURSIVE SumSeq(_)
SumSeq(s) == IF s = << >> THEN 0 ELSE Head(s) + SumSeq(Tail(s))

Range(s) == {s[i] : i \in 1..Len(s)}

MinSeq(s) == CHOOSE x \in Range(s) : \A y \in Range(s) : x <= y

MaxSeq(s) == CHOOSE x \in Range(s) : \A y \in Range(s) : x >= y

\* The value of lines 102-106 with the loss left at the initial zero.
PingFailureWithoutLoss(count) ==
    [sent |-> count, received |-> 0, packet_loss_pct |-> 0, rtts |-> << >>,
     avg_ms |-> None, min_ms |-> None, max_ms |-> None, raises |-> FALSE]

\* Lines 102-106: the value returned when subprocess.run raises.
PingFailure(count) ==
    [sent |-> count, received |-> 0, packet_loss_pct |-> 100, rtts |-> << >>,
     avg_ms |-> None, min_ms |-> None, max_ms |-> None, raises |-> FALSE]

\* The estimate with the share of replies in place of the share of losses.
FallbackLossPctOfReceived(sent, received) == (received * 100) \div sent

\* The estimate with the quotient truncated before the scaling: (lost // sent) * 100.
FallbackLossPctFloored(sent, received) == ((sent - received) \div sent) * 100

\* Lines 135-136: lost = sent - received; loss_pct = (lost / sent) * 100.0
FallbackLossPct(sent, received) == ((sent - received) * 100) \div sent

\* Lines 108-147: the text parsed.
ParsePing(out, count) ==
    LET rtts == out.times
        matched == out.summary.kind \in {"windows", "posix"}
        sent == IF matched THEN out.summary.sent ELSE count
        received == IF matched THEN out.summary.received ELSE Len(rtts)
        loss_pct == IF matched THEN out.summary.pct ELSE FallbackLossPct(sent, received)
    IN  [sent |-> sent, received |-> received, packet_loss_pct |-> loss_pct,
         rtts |-> rtts,
         avg_ms |-> IF rtts # << >> THEN Some(SumSeq(rtts) \div Len(rtts)) ELSE None,
         min_ms |-> IF rtts # << >> THEN Some(MinSeq(rtts)) ELSE None,
         max_ms |-> IF rtts # << >> THEN Some(MaxSeq(rtts)) ELSE None,
         raises |-> FALSE]

\* run_ping without the except clause of lines 105-106.
run_ping_uncaught(out, count) ==
    IF out.raised THEN [PingFailure(count) EXCEPT !.raises = TRUE]
    ELSE ParsePing(out, count)

run_ping(out, count) ==
    IF out.raised THEN PingFailure(count) ELSE ParsePing(out, count)

(***************************************************************************)
(* run_http                                                                *)
(***************************************************************************)
\* run_http without the except clause of lines 160-161.
run_http_uncaught(resp) ==
    IF resp.raised
    THEN [avg_ms |-> None, http_status |-> None, error |-> Some("request failed"),
          raises |-> TRUE]
    ELSE [avg_ms |-> Some(resp.elapsed), http_status |-> Some(resp.status),
          error |-> None, raises |-> FALSE]

run_http(resp) ==
    IF resp.raised
    THEN [avg_ms |-> None, http_status |-> None, error |-> Some("request failed"),
          raises |-> FALSE]
    ELSE [avg_ms |-> Some(resp.elapsed), http_status |-> Some(resp.status),
          error |-> None, raises |-> FALSE]

(***************************************************************************)
(* probe_one: one Measurement for one endpoint.  The result carries the    *)
(* row, the probes executed (in order) and whether an exception escaped.   *)
(***************************************************************************)
EmptyRow(endpoint, ts) ==
    [timestamp |-> ts, name |-> endpoint.name, host |-> endpoint.host,
     method |-> None, avg_ms |-> None, min_ms |-> None, max_ms |-> None,
     rtts |-> << >>, sent |-> None, received |-> None, packet_loss_pct |-> None,
     http_status |-> None, error |-> None]

\* The test with a threshold below total loss.
NeedsHttpFallbackPartial(loss_pct) == loss_pct >= 75

\* The test with a strict comparison, which no loss percentage passes.
NeedsHttpFallbackAboveTotal(loss_pct) == loss_pct > 100

\* Line 233: the test that sends an ICMP-first endpoint to the HTTP probe.
NeedsHttpFallback(loss_pct) == loss_pct >= 100

\* The backfill taking the ICMP average along with the minimum and the maximum.
BackfillWithAverage(r, ping_result) ==
    IF ~Truthy(r.min_ms) /\ Truthy(ping_result.min_ms)
    THEN [r EXCEPT !.avg_ms = ping_result.avg_ms,
                   !.min_ms = ping_result.min_ms,
                   !.max_ms = ping_result.max_ms,
                   !.rtts = IF ping_result.rtts # << >> THEN ping_result.rtts ELSE @]
    ELSE r

\* Lines 255-259: if not row['min_ms'] and ping_result.get("min_ms"): ...
Backfill(r, ping_result) ==
    IF ~Truthy(r.min_ms) /\ Truthy(ping_result.min_ms)
    THEN [r EXCEPT !.min_ms = ping_result.min_ms,
                   !.max_ms = ping_result.max_ms,
                   !.rtts = IF ping_result.rtts # << >> THEN ping_result.rtts ELSE @]
    ELSE r

probe_one(endpoint, ts, po, ho) ==
    LET row0 == EmptyRow(endpoint, ts)
        ping_result == run_ping(po, PING_COUNT)
        http_result == run_http(ho)
    IN  IF endpoint.prefer # "http"
        THEN LET row1 == [row0 EXCEPT !.method = Some("icmp"),
                                      !.avg_ms = ping_result.avg_ms,
                                      !.min_ms = ping_result.min_ms,
                                      !.max_ms = ping_result.max_ms,
                                      !.rtts = ping_result.rtts,
                                      !.sent = Some(ping_result.sent),
                                      !.received = Some(ping_result.received),
                                      !.packet_loss_pct = Some(ping_result.packet_loss_pct),
                                      !.error = None]
             IN  IF ~ping_result.raises /\ NeedsHttpFallback(Val(row1.packet_loss_pct))
                 THEN [row |-> [row1 EXCEPT !.method = Some("http"),
                                            !.avg_ms = http_result.avg_ms,
                                            !.http_status = http_result.http_status,
                                            !.error = http_result.error],
                       legs |-> <<"icmp", "http">>,
                       raises |-> http_result.raises]
                 ELSE [row |-> row1, legs |-> <<"icmp">>, raises |-> ping_result.raises]
        ELSE LET row1 == [row0 EXCEPT !.method = Some("http"),
                                      !.avg_ms = http_result.avg_ms,
                                      !.http_status = http_result.http_status,
                                      !.error = http_result.error]
                 row2 == [row1 EXCEPT !.sent = Some(ping_result.sent),
                                      !.received = Some(ping_result.received),
                                      !.packet_loss_pct = Some(ping_result.packet_loss_pct)]
                 row3 == Backfill(row2, ping_result)
             IN  IF http_result.raises
                 THEN [row |-> row1, legs |-> <<"http">>, raises |-> TRUE]
                 ELSE [row |-> row3, legs |-> <<"http", "icmp">>,
                       raises |-> ping_result.raises]

(***************************************************************************)
(* check_and_record_alerts: the alerts of a Measurement, in the order the  *)
(* function appends them.  The insert loop is the actions InsertAlert.     *)
(***************************************************************************)
Alert(r, metric, value, threshold, message) ==
    [timestamp |-> r.timestamp, name |-> r.name, host |-> r.host, metric |-> metric,
     value |-> value, threshold |-> threshold, message |-> message]

\* The rules with the two comparisons exchanged (>= 200, > 20).
check_and_record_alerts_strict(r) ==
    (IF r.avg_ms # None /\ Val(r.avg_ms) >= LATENCY_ALERT_MS
     THEN << Alert(r, "latency_ms", Val(r.avg_ms), LATENCY_ALERT_MS, "High latency") >>
     ELSE << >>)
    \o
    (IF r.packet_loss_pct # None /\ Val(r.packet_loss_pct) > PACKET_LOSS_ALERT_PCT
     THEN << Alert(r, "packet_loss_pct", Val(r.packet_loss_pct), PACKET_LOSS_ALERT_PCT,
                   "High packet loss") >>
     ELSE << >>)
    \o
    (IF (r.received # None /\ Val(r.received) = 0) /\ r.http_status = None
     THEN << Alert(r, "unreachable", 1, 0, "No responses from host") >>
     ELSE << >>)

check_and_record_alerts(r) ==
    (IF r.avg_ms # None /\ Val(r.avg_ms) > LATENCY_ALERT_MS
     THEN << Alert(r, "latency_ms", Val(r.avg_ms), LATENCY_ALERT_MS, "High latency") >>
     ELSE << >>)
    \o
    (IF r.packet_loss_pct # None /\ Val(r.packet_loss_pct) >= PACKET_LOSS_ALERT_PCT
     THEN << Alert(r, "packet_loss_pct", Val(r.packet_loss_pct), PACKET_LOSS_ALERT_PCT,
                   "High packet loss") >>
     ELSE << >>)
    \o
    (IF (r.received # None /\ Val(r.received) = 0) /\ r.http_status = None
     THEN << Alert(r, "unreachable", 1, 0, "No responses from host") >>
     ELSE << >>)

(***************************************************************************)
(* The sinks.  A CSV line is a record of its kind and its cells; csv.writer *)
(* writes each cell with str(), which the model leaves as the value.       *)
(***************************************************************************)
CsvCells(r) == [i \in 1..Len(CSV_HEADERS) |-> r[CSV_HEADERS[i]]]

\* Line 168: open(csv_path, "a") creates the file when it does not exist and
\* leaves its lines alone when it does.
csv_open(file) == IF file = None THEN Some(<< >>) ELSE file

\* A writerow call whose line stays in a buffer that is never flushed.
csv_writerow_unflushed(file, kind, cells) == file

\* Lines 171 and 172: one writerow call.  The line reaches the file when the
\* with block closes it, whichever way the block is left.
csv_writerow(file, kind, cells) == Some(Append(Val(file), [kind |-> kind, cells |-> cells]))

\* Lines 166-172, when nothing interrupts them.
append_csv(file, r) ==
    LET write_header == file = None
        opened == csv_open(file)
        headed == IF write_header THEN csv_writerow(opened, "header", CSV_HEADERS)
                  ELSE opened
    IN  csv_writerow(headed, "row", CsvCells(r))

\* init_db with DROP TABLE in front of CREATE TABLE.
init_db_recreating(table) == << >>

\* Lines 60-90: CREATE TABLE IF NOT EXISTS leaves the rows of a table alone.
init_db(table) == table

\* insert_db without the commit of line 181: the connection closes, the row is lost.
insert_db_uncommitted(table, r) == table

\* insert_db running its INSERT a second time.
insert_db_twice(table, r) == Append(Append(table, r), r)

insert_db(table, r) == Append(table, r)

\* The insert that skips an alert whose host and metric the table already holds.
insert_alert_once_per_rule(table, a) ==
    IF \E i \in 1..Len(table) : table[i].host = a.host /\ table[i].metric = a.metric
    THEN table
    ELSE Append(table, a)

insert_alert(table, a) == Append(table, a)

(***************************************************************************)
(* The cloud push.  push_to_cloud_async starts one daemon thread for each  *)
(* payload unless the helper is missing; a thread is a record of its       *)
(* payload and its state, "running" until push_row has returned ("pushed") *)
(* or raised ("failed").  What push_row does with a payload depends on the *)
(* remote collector: it accepts the row, refuses it or cannot be reached,  *)
(* or never answers.                                                       *)
(***************************************************************************)
CollectorConditions == {"up", "down", "hangs"}

PushRowResult(c) ==
    CASE c = "up" -> "returns"
      [] c = "down" -> "raises"
      [] c = "hangs" -> "blocks"

\* The payload with the fields of the HTTP leg left out.
PayloadWithoutHttp(r) == [r EXCEPT !.http_status = None, !.error = None]

\* Lines 306-320.
Payload(r) ==
    [timestamp |-> r.timestamp, name |-> r.name, host |-> r.host, method |-> r.method,
     avg_ms |-> r.avg_ms, min_ms |-> r.min_ms, max_ms |-> r.max_ms, rtts |-> r.rtts,
     sent |-> r.sent, received |-> r.received, packet_loss_pct |-> r.packet_loss_pct,
     http_status |-> r.http_status, error |-> r.error]

\* Lines 193-204.
push_to_cloud_async(ths, payload) ==
    IF push_row = None THEN ths
    ELSE Append(ths, [payload |-> payload, state |-> "running"])

(***************************************************************************)
(* The timing of main's loop.  Time is in whole seconds.  The wall time a   *)
(* cycle takes is the environment's (the probes' and the sinks' delays):   *)
(* `work` holds it for each cycle, shorter than, equal to and longer than  *)
(* the interval.                                                           *)
(***************************************************************************)
CycleTimes == {30, 60, 90}

Max(a, b) == IF a >= b THEN a ELSE b

\* A timer that keeps to the grid of the first start: the sleep after a cycle is
\* shortened by what earlier cycles overran.
SleepForCatchingUp(interval, elapsed) ==
    Max(0, (starts[1] + cycle * interval * 60) - (starts[cycle] + elapsed))

\* Line 342: sleep_for = max(0, args.interval * 60 - elapsed)
SleepFor(interval, elapsed) == Max(0, interval * 60 - elapsed)

(***************************************************************************)
(* main and run_once.  pc is "main" before the mode is looked at, then one *)
(* of the statements of run_once, "sleep" between two cycles, and at the   *)
(* end "exit0" (main returned), "stopped" (KeyboardInterrupt caught,       *)
(* sys.exit(0)) or "crashed" (an exception left main: traceback, status 1).*)
(***************************************************************************)
InRunOnce == {"init_db", "probe", "append_csv", "csv_header", "csv_row", "insert_db",
              "db_commit", "check_alerts", "insert_alert", "push"}

Terminated == {"exit0", "stopped", "crashed"}

Raise(type) ==
    /\ pc' = "crashed"
    /\ exc' = Some([type |-> type, at |-> pc])

Init ==
    /\ mode \in {"once", "continuous"}
    /\ pc = "main"
    /\ exc = None
    /\ cycle = 0
    /\ idx = 0
    /\ clock = 0
    /\ row = None
    /\ legs = << >>
    /\ call = None
    /\ found = << >>
    /\ pending = << >>
    /\ csv = None
    /\ csv_at_start = None
    /\ probes = << >>
    /\ alerts = << >>
    /\ net \in [1..NumEndpoints -> NetConditions]
    /\ changes = 0
    /\ now = 0
    /\ starts = << >>
    /\ sleep_for = None
    /\ work = [c \in 1..MaxCycles |-> 30]
    /\ push_row = None
    /\ collector = "up"
    /\ threads = << >>

\* Lines 332-340: either branch of main calls run_once; the loop of continuous
\* mode reads the timer first (line 339).
Start ==
    /\ pc = "main"
    /\ pc' = "init_db"
    /\ cycle' = 1
    /\ starts' = IF mode = "continuous" THEN Append(starts, now) ELSE starts
    /\ UNCHANGED <<mode, csv_at_start, exc, idx, clock, row, legs, call, found, pending, csv, probes, alerts, net, changes, now, sleep_for, work, cloud>>

\* Line 293.
InitDb ==
    /\ pc = "init_db"
    /\ probes' = init_db(probes)
    /\ alerts' = init_db(alerts)
    /\ pc' = "probe"
    /\ idx' = 1
    /\ UNCHANGED <<mode, csv_at_start, exc, cycle, clock, row, legs, call, found, pending, csv, net, changes, timers, cloud>>

InitDbFails ==
    /\ pc = "init_db"
    /\ Raise("sqlite3.Error")
    /\ UNCHANGED <<mode, csv_at_start, cycle, idx, clock, row, legs, call, found, pending, csv, probes, alerts, net, changes, timers, cloud>>

\* Line 296: row = probe_one(ep), the answers drawn from the given sets.
ProbeWith(pings, https) ==
    /\ pc = "probe"
    /\ \E po \in pings, ho \in https :
          LET res == probe_one(ENDPOINTS[idx], clock + 1, po, ho)
          IN  /\ clock' = clock + 1
              /\ legs' = res.legs
              /\ call' = Some([ping |-> po,
                               http |-> IF \E k \in 1..Len(res.legs) : res.legs[k] = "http"
                                        THEN Some(ho) ELSE None])
              /\ IF res.raises
                 THEN /\ Raise("Exception")
                      /\ row' = row
                 ELSE /\ pc' = "append_csv"
                      /\ exc' = exc
                      \* line 298: row['rtts'] = row.get('rtts') or []
                      /\ row' = Some([res.row EXCEPT !.rtts = IF @ # << >> THEN @ ELSE << >>])
    /\ UNCHANGED <<mode, csv_at_start, cycle, idx, found, pending, csv, probes, alerts, net, changes, timers, cloud>>

Probe == ProbeWith({net[idx].ping}, {net[idx].http})

\* append_csv writing the header whether or not the file existed.
AppendCsvOpenAlwaysHeader ==
    /\ pc = "append_csv"
    /\ csv' = csv_open(csv)
    /\ pc' = "csv_header"
    /\ UNCHANGED <<mode, csv_at_start, exc, cycle, idx, clock, row, legs, call, found, pending, probes, alerts, net, changes, timers, cloud>>

\* Line 299, append_csv(row), in the steps a KeyboardInterrupt can separate.
\* Lines 167-168: write_header is decided, then the file is opened.
AppendCsvOpen ==
    /\ pc = "append_csv"
    /\ csv' = csv_open(csv)
    /\ pc' = IF csv = None THEN "csv_header" ELSE "csv_row"
    /\ UNCHANGED <<mode, csv_at_start, exc, cycle, idx, clock, row, legs, call, found, pending, probes, alerts, net, changes, timers, cloud>>

\* Lines 170-171.
AppendCsvHeader ==
    /\ pc = "csv_header"
    /\ csv' = csv_writerow(csv, "header", CSV_HEADERS)
    /\ pc' = "csv_row"
    /\ UNCHANGED <<mode, csv_at_start, exc, cycle, idx, clock, row, legs, call, found, pending, probes, alerts, net, changes, timers, cloud>>

\* Line 172, and the end of the with block.
AppendCsvRow ==
    /\ pc = "csv_row"
    /\ csv' = csv_writerow(csv, "row", CsvCells(Val(row)))
    /\ pc' = "insert_db"
    /\ UNCHANGED <<mode, csv_at_start, exc, cycle, idx, clock, row, legs, call, found, pending, probes, alerts, net, changes, timers, cloud>>

\* open() raises (the file locked or read-only, no space left): nothing is written.
AppendCsvFails ==
    /\ pc = "append_csv"
    /\ Raise("OSError")
    /\ UNCHANGED <<mode, csv_at_start, cycle, idx, clock, row, legs, call, found, pending, csv, probes, alerts, net, changes, timers, cloud>>

\* Line 300, insert_db(row).  Lines 175-180: the INSERT is executed inside a
\* transaction; the table holds the row once the commit is done.
InsertDbExecute ==
    /\ pc = "insert_db"
    /\ pc' = "db_commit"
    /\ UNCHANGED <<mode, csv_at_start, exc, cycle, idx, clock, row, legs, call, found, pending, csv, probes, alerts, net, changes, timers, cloud>>

\* Lines 181-182.
InsertDbCommit ==
    /\ pc = "db_commit"
    /\ probes' = insert_db(probes, Val(row))
    /\ pc' = "check_alerts"
    /\ UNCHANGED <<mode, csv_at_start, exc, cycle, idx, clock, row, legs, call, found, pending, csv, alerts, net, changes, timers, cloud>>

\* The INSERT or the commit raises (database locked, disk full): no row is added.
InsertDbFails ==
    /\ pc = "insert_db"
    /\ Raise("sqlite3.Error")
    /\ UNCHANGED <<mode, csv_at_start, cycle, idx, clock, row, legs, call, found, pending, csv, probes, alerts, net, changes, timers, cloud>>

\* Lines 265-285: the list `alerts` is built.
CheckAlerts ==
    /\ pc = "check_alerts"
    /\ found' = check_and_record_alerts(Val(row))
    /\ pending' = found'
    /\ pc' = "insert_alert"
    /\ UNCHANGED <<mode, csv_at_start, exc, cycle, idx, clock, row, legs, call, csv, probes, alerts, net, changes, timers, cloud>>

\* Lines 286-288: one turn of the loop.
InsertAlert ==
    /\ pc = "insert_alert"
    /\ pending # << >>
    /\ alerts' = insert_alert(alerts, Head(pending))
    /\ pending' = Tail(pending)
    /\ UNCHANGED <<mode, csv_at_start, pc, exc, cycle, idx, clock, row, legs, call, found, csv, probes, net, changes, timers, cloud>>

InsertAlertFails ==
    /\ pc = "insert_alert"
    /\ pending # << >>
    /\ Raise("sqlite3.Error")
    /\ UNCHANGED <<mode, csv_at_start, cycle, idx, clock, row, legs, call, found, pending, csv, probes, alerts, net, changes, timers, cloud>>

\* Line 289: the loop is over, `alerts` is returned.
AlertsDone ==
    /\ pc = "insert_alert"
    /\ pending = << >>
    /\ pc' = "push"
    /\ UNCHANGED <<mode, csv_at_start, exc, cycle, idx, clock, row, legs, call, found, pending, csv, probes, alerts, net, changes, timers, cloud>>

\* The next turn of the for loop or the end of run_once (lines 333-334, or
\* 341-342).  The wall time of the cycle is accounted for here, where run_once
\* returns and main reads the timer again.
NextEndpoint ==
    /\ IF idx < Len(ENDPOINTS)
       THEN /\ idx' = idx + 1
            /\ pc' = "probe"
            /\ UNCHANGED <<now, sleep_for>>
       ELSE /\ idx' = idx
            /\ now' = now + work[cycle]
            /\ IF mode = "once"
               THEN /\ pc' = "exit0"
                    /\ sleep_for' = sleep_for
               ELSE /\ pc' = "sleep"
                    /\ sleep_for' = Some(SleepFor(INTERVAL_MINUTES, now' - starts[cycle]))
    /\ UNCHANGED <<mode, csv_at_start, exc, cycle, clock, row, legs, call, found, pending, csv, probes, alerts, net, changes, starts, work, push_row, collector>>

\* The push made by run_once itself: push_row(payload) is called in place, its
\* exception is caught by the except clause of line 322, and while it does not
\* return run_once does not go on.
PushInline ==
    /\ pc = "push"
    /\ push_row # None => PushRowResult(collector) # "blocks"
    /\ threads' = IF push_row = None THEN threads
                  ELSE Append(threads,
                              [payload |-> Payload(Val(row)),
                               state |-> IF PushRowResult(collector) = "returns"
                                         THEN "pushed" ELSE "failed"])
    /\ NextEndpoint

\* Lines 305-323: the payload is built and handed to push_to_cloud_async, which
\* returns once the thread is started.
Push ==
    /\ pc = "push"
    /\ threads' = push_to_cloud_async(threads, Payload(Val(row)))
    /\ NextEndpoint

\* Lines 197-202, the thread's function: push_row(p) returns and the thread
\* ends.  The process is alive: a daemon thread ends with it.
WorkerPushed ==
    /\ pc \notin Terminated
    /\ \E i \in 1..Len(threads) :
          /\ threads[i].state = "running"
          /\ PushRowResult(collector) = "returns"
          /\ threads' = [threads EXCEPT ![i].state = "pushed"]
    /\ UNCHANGED <<mode, csv_at_start, pc, exc, cycle, idx, clock, row, legs, call, found, pending, csv, probes, alerts, net, changes, timers, push_row, collector>>

\* Lines 201-202: push_row(p) raises, the exception is logged at debug level.
WorkerFailed ==
    /\ pc \notin Terminated
    /\ \E i \in 1..Len(threads) :
          /\ threads[i].state = "running"
          /\ PushRowResult(collector) = "raises"
          /\ threads' = [threads EXCEPT ![i].state = "failed"]
    /\ UNCHANGED <<mode, csv_at_start, pc, exc, cycle, idx, clock, row, legs, call, found, pending, csv, probes, alerts, net, changes, timers, push_row, collector>>

\* Line 343: time.sleep(sleep_for) returns; then lines 339-340 of the next turn
\* of the while loop.
Sleep ==
    /\ pc = "sleep"
    /\ cycle < MaxCycles
    /\ cycle' = cycle + 1
    /\ now' = now + Val(sleep_for)
    /\ starts' = Append(starts, now')
    /\ pc' = "init_db"
    /\ UNCHANGED <<mode, csv_at_start, exc, idx, clock, row, legs, call, found, pending, csv, probes, alerts, net, changes, sleep_for, work, cloud>>

\* The environment: one endpoint starts answering differently to one of the two
\* probes (its ping replies stop or come back, or its web server does).
NetChanges ==
    /\ pc = "sleep"
    /\ changes < MaxNetChanges
    /\ changes' = changes + 1
    /\ \E e \in 1..NumEndpoints :
          \E c \in NetConditions :
              /\ (c.ping = net[e].ping) # (c.http = net[e].http)
              /\ net' = [net EXCEPT ![e] = c]
    /\ UNCHANGED <<mode, csv_at_start, pc, exc, cycle, idx, clock, row, legs, call, found, pending, csv, probes, alerts, timers, cloud>>

\* Ctrl+C with a handler that stores the row in hand on its way out: during a
\* probe that is the row as line 212 set it up.
InterruptSavingRow ==
    /\ pc \in InRunOnce \cup {"sleep"}
    /\ pc' = IF mode = "continuous" THEN "stopped" ELSE "crashed"
    /\ exc' = Some([type |-> "KeyboardInterrupt", at |-> pc])
    /\ probes' = IF pc = "probe"
                 THEN Append(probes, EmptyRow(ENDPOINTS[idx], clock + 1)) ELSE probes
    /\ UNCHANGED <<mode, csv_at_start, cycle, idx, clock, row, legs, call, found, pending, csv, alerts, net, changes, timers, cloud>>

\* Ctrl+C.  Lines 344-346 catch it in continuous mode; one-shot mode has no handler.
Interrupt ==
    /\ pc \in InRunOnce \cup {"sleep"}
    /\ pc' = IF mode = "continuous" THEN "stopped" ELSE "crashed"
    /\ exc' = Some([type |-> "KeyboardInterrupt", at |-> pc])
    /\ UNCHANGED <<mode, csv_at_start, cycle, idx, clock, row, legs, call, found, pending, csv, probes, alerts, net, changes, timers, cloud>>

Next ==
    \/ Start
    \/ InitDb
    \/ InitDbFails
    \/ Probe
    \/ AppendCsvOpen
    \/ AppendCsvHeader
    \/ AppendCsvRow
    \/ AppendCsvFails
    \/ InsertDbExecute
    \/ InsertDbCommit
    \/ InsertDbFails
    \/ CheckAlerts
    \/ InsertAlert
    \/ InsertAlertFails
    \/ AlertsDone
    \/ Push
    \/ Sleep
    \/ NetChanges
    \/ Interrupt

Spec == Init /\ [][Next]_vars

(***************************************************************************)
(* probe_one on its own: one call for either kind of endpoint, with every  *)
(* ping output and HTTP outcome of the bounded sets.                       *)
(***************************************************************************)
QuietNet == [e \in 1..NumEndpoints |-> [ping |-> PingRaises, http |-> HttpRaises]]

InitProbe ==
    /\ mode = "once"
    /\ pc = "probe"
    /\ exc = None
    /\ cycle = 1
    /\ idx \in 1..NumEndpoints
    /\ clock = 0
    /\ row = None
    /\ legs = << >>
    /\ call = None
    /\ found = << >>
    /\ pending = << >>
    /\ csv = None
    /\ csv_at_start = None
    /\ probes = << >>
    /\ alerts = << >>
    /\ net = QuietNet
    /\ changes = 0
    /\ now = 0
    /\ starts = << >>
    /\ sleep_for = None
    /\ work = [c \in 1..MaxCycles |-> 30]
    /\ push_row = None
    /\ collector = "up"
    /\ threads = << >>

ProbeAny == ProbeWith(PingOutputs, HttpOutcomes)

NextProbe == ProbeAny

SpecProbe == InitProbe /\ [][NextProbe]_vars

(***************************************************************************)
(* check_and_record_alerts on its own: one call on each Measurement of a   *)
(* set that holds both sides of either threshold.                          *)
(***************************************************************************)
AlertTestRows ==
    {[EmptyRow(ENDPOINTS[1], 1) EXCEPT !.method = Some("icmp"), !.avg_ms = a,
                                        !.packet_loss_pct = l, !.received = r,
                                        !.sent = IF r = None THEN None ELSE Some(PING_COUNT),
                                        !.http_status = h] :
        a \in {None, Some(199), Some(200), Some(201), Some(250)},
        l \in {None, Some(0), Some(19), Some(20), Some(21), Some(100)},
        r \in {None, Some(0), Some(4)},
        h \in {None, Some(200)}}

InitAlerts ==
    /\ mode = "once"
    /\ pc = "check_alerts"
    /\ exc = None
    /\ cycle = 1
    /\ idx = 1
    /\ clock = 1
    /\ row \in {Some(r) : r \in AlertTestRows}
    /\ legs = << >>
    /\ call = None
    /\ found = << >>
    /\ pending = << >>
    /\ csv = None
    /\ csv_at_start = None
    /\ probes = << >>
    /\ alerts = << >>
    /\ net = QuietNet
    /\ changes = 0
    /\ now = 0
    /\ starts = << >>
    /\ sleep_for = None
    /\ work = [c \in 1..MaxCycles |-> 30]
    /\ push_row = None
    /\ collector = "up"
    /\ threads = << >>

NextAlerts ==
    \/ CheckAlerts
    \/ InsertAlert
    \/ AlertsDone

SpecAlerts == InitAlerts /\ [][NextAlerts]_vars

(***************************************************************************)
(* main's loop with cycles of every length: the network stays quiet at the *)
(* start, the wall time of each cycle is one of CycleTimes.                *)
(***************************************************************************)
InitTimer ==
    /\ mode = "continuous"
    /\ pc = "main"
    /\ exc = None
    /\ cycle = 0
    /\ idx = 0
    /\ clock = 0
    /\ row = None
    /\ legs = << >>
    /\ call = None
    /\ found = << >>
    /\ pending = << >>
    /\ csv = None
    /\ csv_at_start = None
    /\ probes = << >>
    /\ alerts = << >>
    /\ net = QuietNet
    /\ changes = 0
    /\ now = 0
    /\ starts = << >>
    /\ sleep_for = None
    /\ work \in [1..MaxCycles -> CycleTimes]
    /\ push_row = None
    /\ collector = "up"
    /\ threads = << >>

SpecTimer == InitTimer /\ [][Next]_vars

(***************************************************************************)
(* The flat log over a run that may find probes.csv in place: absent, empty *)
(* (created and never written to), holding a header and a Measurement of an *)
(* earlier run, or holding such a Measurement under no header.             *)
(***************************************************************************)
HeaderLine == [kind |-> "header", cells |-> CSV_HEADERS]

EarlierLine ==
    [kind |-> "row", cells |-> CsvCells(probe_one(ENDPOINTS[1], 0, PingRaises, HttpRaises).row)]

CsvFilesAtStart ==
    {None, Some(<< >>), Some(<<HeaderLine, EarlierLine>>), Some(<<EarlierLine>>)}

InitCsv ==
    /\ mode \in {"once", "continuous"}
    /\ pc = "main"
    /\ exc = None
    /\ cycle = 0
    /\ idx = 0
    /\ clock = 0
    /\ row = None
    /\ legs = << >>
    /\ call = None
    /\ found = << >>
    /\ pending = << >>
    /\ csv \in CsvFilesAtStart
    /\ csv_at_start = csv
    /\ probes = << >>
    /\ alerts = << >>
    /\ net = QuietNet
    /\ changes = 0
    /\ now = 0
    /\ starts = << >>
    /\ sleep_for = None
    /\ work = [c \in 1..MaxCycles |-> 30]
    /\ push_row = None
    /\ collector = "up"
    /\ threads = << >>

SpecCsv == InitCsv /\ [][Next]_vars

(***************************************************************************)
(* The monitor with the push helper imported: every Measurement is handed  *)
(* to a thread, and the threads run beside main.                           *)
(***************************************************************************)
InitPush ==
    /\ mode \in {"once", "continuous"}
    /\ pc = "main"
    /\ exc = None
    /\ cycle = 0
    /\ idx = 0
    /\ clock = 0
    /\ row = None
    /\ legs = << >>
    /\ call = None
    /\ found = << >>
    /\ pending = << >>
    /\ csv = None
    /\ csv_at_start = None
    /\ probes = << >>
    /\ alerts = << >>
    /\ net = QuietNet
    /\ changes = 0
    /\ now = 0
    /\ starts = << >>
    /\ sleep_for = None
    /\ work = [c \in 1..MaxCycles |-> 30]
    /\ push_row = Some("push_row")
    /\ collector \in CollectorConditions
    /\ threads = << >>

NextPush ==
    \/ Start
    \/ InitDb
    \/ InitDbFails
    \/ Probe
    \/ AppendCsvOpen
    \/ AppendCsvHeader
    \/ AppendCsvRow
    \/ AppendCsvFails
    \/ InsertDbExecute
    \/ InsertDbCommit
    \/ InsertDbFails
    \/ CheckAlerts
    \/ InsertAlert
    \/ InsertAlertFails
    \/ AlertsDone
    \/ Push
    \/ Sleep
    \/ Interrupt
    \/ WorkerPushed
    \/ WorkerFailed

SpecPush == InitPush /\ [][NextPush]_vars

(***************************************************************************)
(* Properties.                                                             *)
(***************************************************************************)
\* The rows of a sink that hold Measurements.
CsvRows == IF csv = None THEN << >> ELSE SelectSeq(Val(csv), LAMBDA l : l.kind = "row")

\* The position in either sink of the Measurement of endpoint j in cycle c.
RowIndex(c, j) == (c - 1) * NumEndpoints + j

\* Endpoint j's Measurement of cycle c is in the probes table and, the same, among
\* the rows `log` of the flat log.
RecordedIn(log, c, j) ==
    /\ RowIndex(c, j) <= Len(probes)
    /\ probes[RowIndex(c, j)].host = ENDPOINTS[j].host
    /\ probes[RowIndex(c, j)].timestamp = RowIndex(c, j)
    /\ RowIndex(c, j) <= Len(log)
    /\ log[RowIndex(c, j)].cells = CsvCells(probes[RowIndex(c, j)])

Recorded(c, j) == RecordedIn(CsvRows, c, j)

\* A Measurement both of whose probes failed.
BothLegsFailed(r) ==
    /\ r.received = Some(0)
    /\ r.http_status = None
    /\ r.error # None

StorageStatements == {"init_db", "append_csv", "insert_db", "insert_alert"}

\* C1: a failed probe (the ping process raising or timing out, HTTP raising,
\* output the parser does not recognise) never leaves probe_one as an exception:
\* the endpoint's Measurement goes on to the sinks and, while the run lives, every
\* endpoint the cycle has passed, and at the end of the cycle every configured
\* endpoint, has its Measurement recorded.
C1_ProbeFailureIsolated ==
    LET log == CsvRows
    IN  /\ (pc = "crashed" /\ Val(exc).at = "probe") => Val(exc).type = "KeyboardInterrupt"
        /\ pc \in {"probe", "append_csv", "csv_header", "csv_row", "insert_db", "db_commit"} =>
              \A j \in 1..(idx - 1) : RecordedIn(log, cycle, j)
        /\ pc \in {"check_alerts", "insert_alert", "push"} =>
              \A j \in 1..idx : RecordedIn(log, cycle, j)
        /\ pc \in {"sleep", "exit0"} =>
              \A j \in 1..NumEndpoints : RecordedIn(log, cycle, j)

\* C1 witness: a cycle has ended in which one endpoint's probe failed on both
\* legs and the endpoint after it was probed and recorded.
C1_Witness ==
    /\ pc \in {"sleep", "exit0"}
    /\ \E j \in 1..(NumEndpoints - 1) :
          /\ BothLegsFailed(probes[RowIndex(cycle, j)])
          /\ Recorded(cycle, j + 1)

\* C2: the two sink writes of a Measurement are independent: when append_csv has
\* raised the Measurement is still inserted into probes, when insert_db has
\* raised the Measurement is still in the flat log, and neither ends the cycle.
C2_SinksIndependent ==
    (exc # None /\ Val(exc).type # "KeyboardInterrupt") =>
        /\ Val(exc).at = "append_csv" =>
              /\ pc # "crashed"
              /\ \E k \in 1..Len(probes) : probes[k] = Val(row)
        /\ Val(exc).at = "insert_db" =>
              /\ pc # "crashed"
              /\ \E k \in 1..Len(CsvRows) : CsvRows[k].cells = CsvCells(Val(row))

\* C3: a storage write error (append_csv, insert_db, insert_alert) does not end
\* the process, in one-shot or in continuous mode.
C3_StorageErrorContained ==
    ~(/\ pc = "crashed"
      /\ Val(exc).type \in {"OSError", "sqlite3.Error"}
      /\ Val(exc).at \in {"append_csv", "insert_db", "insert_alert"})

\* C4: every row of alerts has a row of probes with its timestamp and host (in
\* every reachable state, so the probes row was committed first), and while an
\* endpoint's alerts are evaluated and inserted its Measurement is the last row
\* of probes.
C4_MeasurementBeforeAlerts ==
    /\ \A i \in 1..Len(alerts) :
          \E k \in 1..Len(probes) :
              /\ probes[k].timestamp = alerts[i].timestamp
              /\ probes[k].host = alerts[i].host
    /\ pc \in {"check_alerts", "insert_alert"} =>
          /\ Len(probes) > 0
          /\ probes[Len(probes)] = Val(row)

\* C4 witness: an alert of the current endpoint's Measurement has been inserted.
C4_Witness ==
    /\ pc = "insert_alert"
    /\ Len(alerts) > 0
    /\ alerts[Len(alerts)].timestamp = Val(row).timestamp
    /\ alerts[Len(alerts)].host = Val(row).host

HttpRan == \E k \in 1..Len(legs) : legs[k] = "http"

Probed == pc = "append_csv" /\ row # None /\ call # None

\* C5: for an ICMP-first endpoint the HTTP probe runs exactly when the ICMP
\* result has packet_loss_pct = 100; then method is "http", avg_ms, http_status
\* and error are those of the HTTP outcome and sent, received, packet_loss_pct
\* those of the ICMP result; otherwise method is "icmp" and http_status is null.
C5_TotalLossFallback ==
    (Probed /\ ENDPOINTS[idx].prefer = "icmp") =>
        LET icmp == run_ping(Val(call).ping, PING_COUNT)
            r == Val(row)
        IN  /\ HttpRan <=> icmp.packet_loss_pct = 100
            /\ HttpRan =>
                  LET http == run_http(Val(Val(call).http))
                  IN  /\ legs = <<"icmp", "http">>
                      /\ r.method = Some("http")
                      /\ r.avg_ms = http.avg_ms
                      /\ r.http_status = http.http_status
                      /\ r.error = http.error
                      /\ r.sent = Some(icmp.sent)
                      /\ r.received = Some(icmp.received)
                      /\ r.packet_loss_pct = Some(100)
            /\ ~HttpRan =>
                  /\ r.method = Some("icmp")
                  /\ r.http_status = None

\* C5 witness: total loss on an ICMP-first endpoint, answered over HTTP.
C5_Witness ==
    /\ Probed
    /\ ENDPOINTS[idx].prefer = "icmp"
    /\ ~Val(call).ping.raised
    /\ legs = <<"icmp", "http">>
    /\ Val(row).method = Some("http")
    /\ Val(row).http_status = Some(200)
    /\ Val(row).received = Some(0)

\* An HTTP probe ran and measured its elapsed time.
HttpTimingCaptured == HttpRan /\ ~Val(Val(call).http).raised

\* C6: in every Measurement avg_ms is null exactly when rtts is empty and no
\* HTTP timing was captured.
C6_AvgNullIff ==
    Probed => (Val(row).avg_ms = None <=> (Val(row).rtts = << >> /\ ~HttpTimingCaptured))

\* C7: in every Measurement received <= sent when both are non-null.
C7_ReceivedLeSent ==
    (Probed /\ Val(row).received # None /\ Val(row).sent # None) =>
        Val(Val(row).received) <= Val(Val(row).sent)

\* The counts of the Measurement are the fallback estimate: ping printed text in
\* which neither summary pattern matches.
FallbackEstimate == ~Val(call).ping.raised /\ Val(call).ping.summary.kind = "none"

\* C8: in every Measurement that tracks received, packet_loss_pct = 100 implies
\* received = 0; and under the fallback estimate received = 0 implies
\* packet_loss_pct = 100.
C8_TotalLossMeansNoReply ==
    (Probed /\ Val(row).received # None) =>
        /\ Val(row).packet_loss_pct = Some(100) => Val(row).received = Some(0)
        /\ (FallbackEstimate /\ Val(row).received = Some(0)) =>
              Val(row).packet_loss_pct = Some(100)

\* C8 witness: the fallback estimate of a text without any reply.
C8_Witness ==
    /\ Probed
    /\ FallbackEstimate
    /\ Val(row).received = Some(0)
    /\ Val(row).packet_loss_pct = Some(100)

Metrics(as) == [i \in 1..Len(as) |-> as[i].metric]

\* C9: check_and_record_alerts yields exactly the alerts whose rule holds, one
\* per metric at most, in the order latency, packet loss, unreachable: latency
\* iff avg_ms is non-null and above 200, packet loss iff packet_loss_pct is
\* non-null and at least 20, unreachable (value 1, threshold 0) iff received is 0
\* and http_status is null; the alerts it returns are the rows it has inserted.
C9_AlertRules ==
    pc \in {"insert_alert", "push"} =>
        LET r == Val(row)
            latency == r.avg_ms # None /\ Val(r.avg_ms) > LATENCY_ALERT_MS
            loss == r.packet_loss_pct # None /\ Val(r.packet_loss_pct) >= PACKET_LOSS_ALERT_PCT
            unreachable == r.received = Some(0) /\ r.http_status = None
        IN  /\ Metrics(found) =
                  (IF latency THEN <<"latency_ms">> ELSE << >>)
                  \o (IF loss THEN <<"packet_loss_pct">> ELSE << >>)
                  \o (IF unreachable THEN <<"unreachable">> ELSE << >>)
            /\ \A i \in 1..Len(found) :
                  /\ found[i].timestamp = r.timestamp
                  /\ found[i].host = r.host
                  /\ found[i].name = r.name
                  /\ found[i].metric = "latency_ms" =>
                        found[i].value = Val(r.avg_ms) /\ found[i].threshold = 200
                  /\ found[i].metric = "packet_loss_pct" =>
                        found[i].value = Val(r.packet_loss_pct) /\ found[i].threshold = 20
                  /\ found[i].metric = "unreachable" =>
                        found[i].value = 1 /\ found[i].threshold = 0
            /\ (r.avg_ms = Some(250) /\ r.packet_loss_pct = Some(0) /\ r.received = Some(4)) =>
                  Metrics(found) = <<"latency_ms">>
            /\ (r.avg_ms = None /\ r.packet_loss_pct = Some(100) /\ r.received = Some(0)
                    /\ r.http_status = None) =>
                  Metrics(found) = <<"packet_loss_pct", "unreachable">>
            /\ pc = "push" => alerts = found

\* C9 witness: the call on avg_ms=250, loss=0, received=4 has returned its one
\* latency alert.
C9_Witness ==
    /\ pc = "push"
    /\ Val(row).avg_ms = Some(250)
    /\ Val(row).packet_loss_pct = Some(0)
    /\ Val(row).received = Some(4)
    /\ Val(row).http_status = None
    /\ Metrics(alerts) = <<"latency_ms">>

\* Cycles of which run_once has returned.
CyclesDone == IF pc = "sleep" THEN cycle ELSE IF cycle = 0 THEN 0 ELSE cycle - 1

\* C10: in continuous mode the loop is left only by a KeyboardInterrupt or by an
\* exception of a storage statement, never by a failed probe; every cycle that
\* has run to its end has recorded a Measurement of every endpoint, whichever
\* endpoints failed in it; and after a cycle the loop starts the next one.
C10_FailingEndpointKeepsLoop ==
    mode = "continuous" =>
        LET log == CsvRows
        IN  /\ pc = "crashed" => Val(exc).at \in StorageStatements
            /\ \A c \in 1..CyclesDone : \A j \in 1..NumEndpoints : RecordedIn(log, c, j)
            /\ (pc = "sleep" /\ cycle < MaxCycles) => ENABLED Sleep

\* C10 witness: three cycles are over, one endpoint failed on both legs in each
\* of them, and every other endpoint has a Measurement in each.
C10_Witness ==
    /\ mode = "continuous"
    /\ pc = "sleep"
    /\ cycle = 3
    /\ \E k \in 1..NumEndpoints :
          \A c \in 1..3 :
              /\ BothLegsFailed(probes[RowIndex(c, k)])
              /\ \A j \in (1..NumEndpoints) \ {k} : Recorded(c, j)

\* The interval between two cycles, in seconds.
IntervalSeconds == INTERVAL_MINUTES * 60

\* C11: in continuous mode the sleep after a cycle is max(0, interval - wall time
\* of that cycle): never negative, 0 when the cycle took the interval or longer,
\* the rest of the interval otherwise; what a cycle overran is not taken off a
\* later sleep: every cycle starts when the one before it ended or one interval
\* after the one before it started, whichever is later.
C11_SleepIsRestOfInterval ==
    /\ pc = "sleep" =>
          LET elapsed == now - starts[cycle]
          IN  /\ sleep_for # None
              /\ Val(sleep_for) >= 0
              /\ elapsed >= IntervalSeconds => Val(sleep_for) = 0
              /\ elapsed < IntervalSeconds => Val(sleep_for) = IntervalSeconds - elapsed
    /\ \A c \in 2..Len(starts) :
          starts[c] = starts[c - 1] + (IF work[c - 1] >= IntervalSeconds
                                      THEN work[c - 1] ELSE IntervalSeconds)

\* C11 witness: the first cycle overran the interval and was followed at once by
\* the second, which took half the interval and is followed by a sleep of the
\* other half.
C11_Witness ==
    /\ pc = "sleep"
    /\ cycle = 2
    /\ work[1] > IntervalSeconds
    /\ starts[2] = starts[1] + work[1]
    /\ now - starts[2] = 30
    /\ sleep_for = Some(30)

\* The scheduler's state, read off main's position.
Scheduler ==
    CASE pc = "main" -> "IDLE"
      [] pc \in InRunOnce -> "RUNNING_CYCLE"
      [] pc = "sleep" -> "SLEEPING"
      [] pc = "stopped" -> "STOPPED"
      [] pc = "exit0" -> "EXITED"
      [] pc = "crashed" -> "CRASHED"

\* C12: in continuous mode every step of the scheduler stays in its state or
\* moves IDLE -> RUNNING_CYCLE, RUNNING_CYCLE -> SLEEPING, SLEEPING ->
\* RUNNING_CYCLE, or, on a KeyboardInterrupt only, to the terminal state STOPPED;
\* no error met while an endpoint is handled takes the loop anywhere else.
C12_SchedulerStateMachine ==
    [][mode = "continuous" =>
          \/ Scheduler' = Scheduler
          \/ Scheduler = "IDLE" /\ Scheduler' = "RUNNING_CYCLE"
          \/ Scheduler = "RUNNING_CYCLE" /\ Scheduler' = "SLEEPING"
          \/ Scheduler = "SLEEPING" /\ Scheduler' = "RUNNING_CYCLE"
          \/ /\ Scheduler \in {"RUNNING_CYCLE", "SLEEPING"}
             /\ Scheduler' = "STOPPED"
             /\ exc' # None
             /\ Val(exc').type = "KeyboardInterrupt"]_vars

\* C13: one-shot mode runs one cycle and no more, and unless it is killed from
\* outside it ends by main returning (exit status 0) with a Measurement of every
\* endpoint recorded, whatever failed for the endpoints.
C13_OneShotExitsZero ==
    mode = "once" =>
        /\ cycle <= 1
        /\ pc # "sleep"
        /\ pc = "exit0" =>
              /\ Len(probes) = NumEndpoints
              /\ \A j \in 1..NumEndpoints : Recorded(1, j)
        /\ pc = "crashed" => Val(exc).type = "KeyboardInterrupt"

\* Cycles that have run to their end, the one of one-shot mode included.
CyclesCompleted == IF pc \in {"sleep", "exit0"} THEN cycle ELSE CyclesDone

\* The endpoint whose Measurement stands at place i of a sink when every cycle
\* adds one row per endpoint, in the order of ENDPOINTS.
EndpointAt(i) == ENDPOINTS[((i - 1) % NumEndpoints) + 1]

\* C14: a completed cycle has put one Measurement of each endpoint, and one only,
\* into the probes table and into the flat log: after k completed cycles over n
\* endpoints each sink holds k * n Measurement rows, and at every time the row at
\* place (c - 1) * n + j of a sink is the Measurement of endpoint j taken in
\* cycle c, so that no sink holds two rows of one endpoint and one cycle.
C14_OneRowPerEndpointAndCycle ==
    LET log == CsvRows
    IN  /\ pc \in {"sleep", "exit0"} =>
              /\ Len(probes) = cycle * NumEndpoints
              /\ Len(log) = cycle * NumEndpoints
        /\ \A i \in 1..Len(probes) :
              /\ probes[i].host = EndpointAt(i).host
              /\ probes[i].timestamp = i
        /\ \A i \in 1..Len(log) :
              /\ log[i].cells[3] = EndpointAt(i).host
              /\ log[i].cells[1] = i

\* C14 witness: two cycles are complete and each sink holds two rows of each
\* endpoint.
C14_Witness ==
    /\ pc = "sleep"
    /\ cycle = 2
    /\ Len(probes) = 2 * NumEndpoints
    /\ Len(CsvRows) = 2 * NumEndpoints
    /\ \A j \in 1..NumEndpoints : probes[j].host = probes[NumEndpoints + j].host

\* Sequence s is the beginning of sequence t.
IsPrefix(s, t) == Len(s) <= Len(t) /\ SubSeq(t, 1, Len(s)) = s

\* C15: every step leaves the rows the probes table, the alerts table and the
\* flat log already hold in place and unchanged: a sink changes only by rows
\* added at its end, and the flat log, once it exists, stays.
C15_AppendOnly ==
    [][/\ IsPrefix(probes, probes')
       /\ IsPrefix(alerts, alerts')
       /\ csv # None => (csv' # None /\ IsPrefix(Val(csv), Val(csv')))]_vars

\* C15 witness: the second cycle has called init_db on tables that hold the rows
\* of the first, and those rows are still the first rows of both sinks.
C15_Witness ==
    /\ cycle = 2
    /\ pc = "db_commit"
    /\ idx = 1
    /\ Len(probes) = NumEndpoints
    /\ Len(alerts) > 0
    /\ Len(CsvRows) = NumEndpoints + 1
    /\ \A j \in 1..NumEndpoints : Recorded(1, j)

\* The flat log and the probes table hold the Measurement p.
Persisted(log, p) ==
    /\ \E k \in 1..Len(probes) : probes[k] = p
    /\ \E k \in 1..Len(log) : log[k].cells = CsvCells(p)

\* A thread has ended in this step.
WorkerEnds ==
    \E i \in 1..Len(threads) : threads[i].state = "running" /\ threads'[i].state # "running"

\* C16: whatever becomes of the pushes (they fail, are slow or hang), main is
\* never held up by them: its next statement can always be run, every cycle that
\* has completed has recorded every endpoint, and the Measurement of every
\* thread, running or ended, is still in both sinks; a thread that ends changes
\* nothing of the sinks and nothing of where main stands or what it sleeps.
C16_PushNeverHoldsUpScheduler ==
    /\ [](LET log == CsvRows
          IN  /\ pc = "push" => ENABLED Push
              /\ pc = "probe" => ENABLED Probe
              /\ (pc = "sleep" /\ cycle < MaxCycles) => ENABLED Sleep
              /\ \A c \in 1..CyclesCompleted : \A j \in 1..NumEndpoints : RecordedIn(log, c, j)
              /\ \A i \in 1..Len(threads) : Persisted(log, threads[i].payload))
    /\ [][WorkerEnds => UNCHANGED <<pc, exc, cycle, idx, row, csv, probes, alerts, timers>>]_vars

\* C16 witness: the collector is down; in the second cycle the push of the first
\* Measurement has failed, the push of the last Measurement of the first cycle
\* is still in flight, and the first cycle is recorded in full.
C16_Witness ==
    /\ PushRowResult(collector) = "raises"
    /\ cycle = 2
    /\ pc \in InRunOnce
    /\ Len(threads) >= NumEndpoints
    /\ threads[1].state = "failed"
    /\ threads[NumEndpoints].state = "running"
    /\ threads[NumEndpoints].payload.timestamp = NumEndpoints
    /\ \A j \in 1..NumEndpoints : Recorded(1, j)

\* C17: the i-th thread started carries the i-th Measurement: when the thread
\* exists (running or ended) the row is in the probes table and in the flat log,
\* and the payload has the values of the persisted row in every field.
C17_PushAfterPersistence ==
    LET log == CsvRows
    IN  \A i \in 1..Len(threads) :
            /\ i <= Len(probes)
            /\ i <= Len(log)
            /\ \A h \in DOMAIN probes[i] : threads[i].payload[h] = probes[i][h]
            /\ \A k \in 1..Len(CSV_HEADERS) :
                  log[i].cells[k] = threads[i].payload[CSV_HEADERS[k]]

\* C17 witness: the first Measurement, with the error of its HTTP leg, is in both
\* sinks and the collector has taken its payload.
C17_Witness ==
    /\ Len(threads) = 1
    /\ threads[1].state = "pushed"
    /\ threads[1].payload.error # None
    /\ probes = << threads[1].payload >>
    /\ Len(CsvRows) = 1

\* A Measurement as probe_one returns it: the method and the three counts of
\* the ICMP leg are set.
Complete(r) ==
    /\ r.method # None
    /\ r.sent # None
    /\ r.received # None
    /\ r.packet_loss_pct # None

\* C18: in continuous mode a KeyboardInterrupt can arrive at every statement of
\* a cycle and during the sleep, and it ends the loop; once it has, each sink
\* holds of the endpoint that was in progress either no row or the whole
\* Measurement probe_one returned for it, and no sink, at any time, holds a row
\* that is not a whole Measurement.
C18_StopLeavesWholeRows ==
    mode = "continuous" =>
        LET log == CsvRows
            k == RowIndex(cycle, idx)
        IN  /\ pc \in InRunOnce \cup {"sleep"} => ENABLED Interrupt
            /\ \A i \in 1..Len(probes) : Complete(probes[i])
            /\ \A i \in 1..Len(log) :
                  /\ Len(log[i].cells) = Len(CSV_HEADERS)
                  /\ log[i].cells[4] # None
                  /\ log[i].cells[9] # None
                  /\ log[i].cells[10] # None
                  /\ log[i].cells[11] # None
            /\ pc = "stopped" =>
                  /\ ~ENABLED Next
                  /\ Len(probes) <= k
                  /\ Len(log) <= k
                  /\ (idx > 0 /\ Len(probes) = k) => probes[k] = Val(row)
                  /\ (idx > 0 /\ Len(log) = k) =>
                        \A h \in 1..Len(CSV_HEADERS) : log[k].cells[h] = Val(row)[CSV_HEADERS[h]]

\* C18 witness: the signal arrived between the two sink writes of the second
\* endpoint: the flat log holds its whole row, the probes table none.
C18_Witness ==
    /\ mode = "continuous"
    /\ pc = "stopped"
    /\ Val(exc).at = "insert_db"
    /\ idx = 2
    /\ Len(CsvRows) = RowIndex(cycle, 2)
    /\ CsvRows[RowIndex(cycle, 2)].cells = CsvCells(Val(row))
    /\ Len(probes) = RowIndex(cycle, 1)

\* probe_one has returned the Measurement of an HTTP-first endpoint.
ProbedHttpFirst == Probed /\ ENDPOINTS[idx].prefer = "http"

\* C19: for an HTTP-first endpoint probe_one runs the HTTP probe, then the ICMP
\* probe; the Measurement has method "http", avg_ms, http_status and error of
\* the HTTP outcome (avg_ms is null when HTTP failed, whatever the ICMP average)
\* and sent, received and packet_loss_pct of the ICMP result.
C19_HttpFirst ==
    ProbedHttpFirst =>
        LET icmp == run_ping(Val(call).ping, PING_COUNT)
            r == Val(row)
        IN  /\ legs = <<"http", "icmp">>
            /\ Val(call).http # None
            /\ LET http == run_http(Val(Val(call).http))
               IN  /\ r.method = Some("http")
                   /\ r.avg_ms = http.avg_ms
                   /\ r.http_status = http.http_status
                   /\ r.error = http.error
            /\ r.sent = Some(icmp.sent)
            /\ r.received = Some(icmp.received)
            /\ r.packet_loss_pct = Some(icmp.packet_loss_pct)

\* C19 witness: HTTP answered in 120 ms, ping measured 420 ms on average: the
\* Measurement keeps the 120 ms next to the minimum and maximum of 420 ms.
C19_Witness ==
    /\ ProbedHttpFirst
    /\ Val(row).method = Some("http")
    /\ Val(row).avg_ms = Some(120)
    /\ Val(row).http_status = Some(200)
    /\ run_ping(Val(call).ping, PING_COUNT).avg_ms = Some(420)
    /\ Val(row).min_ms = Some(420)
    /\ Val(row).received = Some(4)

\* C20: for an HTTP-first endpoint (the HTTP leg sets no min_ms) the
\* Measurement's min_ms, max_ms and rtts are those of the ICMP result, for every
\* ICMP result, a minimum round-trip time of 0 ms included.
C20_BackfillFromIcmp ==
    ProbedHttpFirst =>
        LET icmp == run_ping(Val(call).ping, PING_COUNT)
        IN  /\ Val(row).min_ms = icmp.min_ms
            /\ Val(row).max_ms = icmp.max_ms
            /\ Val(row).rtts = icmp.rtts

\* The ping process could not be run: subprocess.run raised (the executable is
\* missing, or the timeout of line 104 expired).
PingProcessFailed == call # None /\ Val(call).ping.raised

\* C21: when the ping process fails to launch or times out, run_ping does not
\* raise: probe_one goes on to the sinks with sent = PING_COUNT, received = 0,
\* packet_loss_pct = 100, no round-trip times and no minimum or maximum, and
\* the only average a Measurement can then carry is the HTTP probe's.
C21_PingFailureIsTotalLoss ==
    PingProcessFailed =>
        /\ pc = "append_csv"
        /\ exc = None
        /\ row # None
        /\ Val(row).sent = Some(PING_COUNT)
        /\ Val(row).received = Some(0)
        /\ Val(row).packet_loss_pct = Some(100)
        /\ Val(row).rtts = << >>
        /\ Val(row).min_ms = None
        /\ Val(row).max_ms = None
        /\ Val(row).avg_ms # None =>
              /\ HttpRan
              /\ ~Val(Val(call).http).raised
              /\ Val(row).avg_ms = Some(Val(Val(call).http).elapsed)

\* C21 witness: an ICMP-first endpoint whose ping process failed, measured and
\* on its way to the sinks.
C21_Witness ==
    /\ PingProcessFailed
    /\ ENDPOINTS[idx].prefer # "http"
    /\ pc = "append_csv"
    /\ Val(row).received = Some(0)
    /\ Val(row).packet_loss_pct = Some(100)

\* C22: when the text matches neither summary pattern, the parser returns
\* sent = PING_COUNT, received = the number of time tokens, and
\* packet_loss_pct = (sent - received) / sent * 100; four tokens give
\* sent = 4, received = 4, packet_loss_pct = 0.
C22_FallbackParse ==
    (Probed /\ FallbackEstimate) =>
        LET tokens == Len(Val(call).ping.times)
        IN  /\ Val(row).sent = Some(PING_COUNT)
            /\ Val(row).received = Some(tokens)
            /\ Val(row).packet_loss_pct # None
            /\ Val(Val(row).packet_loss_pct) * PING_COUNT = (PING_COUNT - tokens) * 100
            /\ tokens = 4 => Val(row).packet_loss_pct = Some(0)

\* C22 witness: the fallback estimate of a text with four time tokens.
C22_Witness ==
    /\ Probed
    /\ FallbackEstimate
    /\ Len(Val(call).ping.times) = 4
    /\ Val(row).sent = Some(4)
    /\ Val(row).received = Some(4)
    /\ Val(row).packet_loss_pct = Some(0)

\* C22 witness of a partial loss: three time tokens of four.
C22_PartialLoss ==
    /\ Probed
    /\ FallbackEstimate
    /\ Val(row).packet_loss_pct = Some(25)

\* C23: the packet_loss_pct of every Measurement lies in [0, 100].
C23_LossWithinRange ==
    (Probed /\ Val(row).packet_loss_pct # None) =>
        /\ Val(Val(row).packet_loss_pct) >= 0
        /\ Val(Val(row).packet_loss_pct) <= 100

AlertMetrics == {"latency_ms", "packet_loss_pct", "unreachable"}

\* The Measurement r breaches the rule of metric m.
Breaches(r, m) ==
    CASE m = "latency_ms" -> r.avg_ms # None /\ Val(r.avg_ms) > LATENCY_ALERT_MS
      [] m = "packet_loss_pct" -> r.packet_loss_pct # None /\ Val(r.packet_loss_pct) >= PACKET_LOSS_ALERT_PCT
      [] m = "unreachable" -> r.received = Some(0) /\ r.http_status = None

\* The places in the alerts table of the alerts of metric m about host h.
AlertRows(h, m) == {i \in 1..Len(alerts) : alerts[i].host = h /\ alerts[i].metric = m}

\* C24: alerts are neither deduplicated nor rate-limited across cycles: after k
\* completed cycles, for every endpoint and every rule, the alerts table holds
\* one row for each cycle whose Measurement of the endpoint breached the rule
\* (so k rows when all k did) and none for the other cycles, each row carrying
\* the timestamp, name and host of that cycle's Measurement.
C24_AlertEveryBreachingCycle ==
    pc \in {"sleep", "exit0"} =>
        \A j \in 1..NumEndpoints, m \in AlertMetrics :
            LET rows == AlertRows(ENDPOINTS[j].host, m)
                breaching == {c \in 1..cycle : Breaches(probes[RowIndex(c, j)], m)}
                of(c) == {i \in rows : alerts[i].timestamp = probes[RowIndex(c, j)].timestamp}
            IN  /\ Cardinality(rows) = Cardinality(breaching)
                /\ \A c \in 1..cycle :
                      Cardinality(of(c)) = IF c \in breaching THEN 1 ELSE 0
                /\ \A i \in rows : alerts[i].name = ENDPOINTS[j].name

\* C24 witness: three cycles are complete, an endpoint was unreachable in each
\* of them, and the alerts table holds three unreachable alerts about it.
C24_Witness ==
    /\ pc = "sleep"
    /\ cycle = 3
    /\ \E j \in 1..NumEndpoints :
          /\ \A c \in 1..3 : Breaches(probes[RowIndex(c, j)], "unreachable")
          /\ Cardinality(AlertRows(ENDPOINTS[j].host, "unreachable")) = 3

\* A probe leg run for the Measurement failed: the ping process could not be
\* run (lines 102-106), or the HTTP request, when made, raised (lines 159-160).
IcmpLegFailed == Val(call).ping.raised

HttpLegFailed == HttpRan /\ Val(Val(call).http).raised

\* C25: the error field of a Measurement is non-null whenever a leg run for it
\* failed, and null only when no leg run for it failed.
C25_ErrorIffALegFailed ==
    Probed => (Val(row).error # None <=> (IcmpLegFailed \/ HttpLegFailed))

\* The step of run_once the process stands at, or stood at when it ended.
StoodAt == IF pc \in Terminated /\ exc # None THEN Val(exc).at ELSE pc

\* The Measurement of the i-th append_csv call of the run.
Measured(i) == IF i <= Len(probes) THEN probes[i] ELSE Val(row)

\* C26: a flat log that did not exist when the run started holds the header
\* as its first line, once, followed by one row per Measurement in write
\* order; a flat log that existed holds what it held, then one row per
\* Measurement in write order, and no header is added to it.  Inside the first
\* call the new file is still empty until the header is written.
C26_HeaderOnceThenRows ==
    LET held == IF csv_at_start = None THEN << >> ELSE Val(csv_at_start)
        top == IF csv_at_start = None THEN <<HeaderLine>> ELSE held
        calls == Len(probes) + (IF StoodAt \in {"insert_db", "db_commit"} THEN 1 ELSE 0)
    IN  /\ csv = None => (csv_at_start = None /\ calls = 0)
        /\ (csv # None /\ StoodAt = "csv_header") =>
              (csv_at_start = None /\ calls = 0 /\ Val(csv) = << >>)
        /\ (csv # None /\ StoodAt # "csv_header") =>
              LET file == Val(csv)
              IN  /\ csv_at_start = None => (calls > 0 \/ StoodAt = "csv_row")
                  /\ Len(file) = Len(top) + calls
                  /\ SubSeq(file, 1, Len(top)) = top
                  /\ \A i \in 1..calls :
                        /\ file[Len(top) + i].kind = "row"
                        /\ file[Len(top) + i].cells = CsvCells(Measured(i))
                        /\ file[Len(top) + i].cells[1] = i

\* C26 witness: the run created the file, four calls are done, and the header
\* is the first of its five lines and the only header.
C26_Witness ==
    /\ csv_at_start = None
    /\ csv # None
    /\ Len(Val(csv)) = 5
    /\ Val(csv)[1] = HeaderLine
    /\ \A i \in 2..5 : Val(csv)[i].kind = "row"
    /\ StoodAt = "check_alerts"

\* C26 witness of a file that existed, empty: two calls later it holds two rows
\* and no header.
C26_ExistingFileGetsNoHeader ==
    /\ csv_at_start = Some(<< >>)
    /\ csv # None
    /\ Len(Val(csv)) = 2
    /\ \A i \in 1..2 : Val(csv)[i].kind = "row"
    /\ pc = "check_alerts"

\* check_and_record_alerts raises the unreachable alert for the Measurement in hand.
UnreachableAlerted ==
    \E i \in 1..Len(check_and_record_alerts(Val(row))) :
        check_and_record_alerts(Val(row))[i].metric = "unreachable"

IcmpRan == \E k \in 1..Len(legs) : legs[k] = "icmp"

\* ping brought no reply back: it could not be run, or its text shows none.
NoIcmpReply == Val(call).ping.raised \/ Val(call).ping.times = << >>

\* C27: the unreachable alert is raised only for a Measurement for which both
\* probes were run and both failed: ping brought no reply and the HTTP request
\* was made and got no response.  It is never raised when HTTP was not run.
C27_UnreachableNeedsBothLegs ==
    (Probed /\ UnreachableAlerted) =>
        /\ IcmpRan
        /\ HttpRan
        /\ NoIcmpReply
        /\ Val(Val(call).http).raised
        /\ Val(row).received = Some(0)
        /\ Val(row).http_status = None

\* C27 witness: an ICMP-first endpoint that answered neither probe, alerted as
\* unreachable.
C27_Witness ==
    /\ Probed
    /\ ENDPOINTS[idx].prefer # "http"
    /\ UnreachableAlerted
    /\ legs = <<"icmp", "http">>
    /\ Val(Val(call).http).raised

\* C27 witness of the rule staying silent: ping lost everything and the HTTP
\* fallback got a response.
C27_FallbackAnswered ==
    /\ Probed
    /\ Val(row).received = Some(0)
    /\ Val(row).http_status # None
    /\ ~UnreachableAlerted

\* By how many Measurement rows the flat log is ahead of the probes table.
LogAhead == Len(CsvRows) - Len(probes)

\* C28: within one run the flat log holds as many Measurement rows as the
\* probes table or one more; one more exactly while the run stands between
\* the two writes of an endpoint (line 299 done, line 300 not), or ended there
\* by a failure of the second write or by Ctrl+C; the counts are equal at
\* every other point, so whenever no endpoint is in progress.
C28_LogAtMostOneAhead ==
    /\ LogAhead \in {0, 1}
    /\ LogAhead = 1 <=> StoodAt \in {"insert_db", "db_commit"}
    /\ pc \in {"main", "sleep", "exit0"} => LogAhead = 0

\* C28 witness: the INSERT of the third Measurement failed after its row
\* went to the flat log: three rows there, two in the table.
C28_Witness ==
    /\ pc = "crashed"
    /\ exc = Some([type |-> "sqlite3.Error", at |-> "insert_db"])
    /\ Len(CsvRows) = 3
    /\ Len(probes) = 2

\* C28 witness of a cancellation between the two writes.
C28_CancelledBetweenWrites ==
    /\ pc = "stopped"
    /\ Val(exc).type = "KeyboardInterrupt"
    /\ StoodAt \in {"insert_db", "db_commit"}
    /\ LogAhead = 1

\* C28 witness of the counts level again after a cycle.
C28_LevelAfterCycle ==
    /\ pc = "sleep"
    /\ Len(CsvRows) = NumEndpoints
    /\ Len(probes) = NumEndpoints

====
